---- MODULE Spec2Model ----
(***************************************************************************)
(* dns-mock-server: a mock authoritative DNS responder for tests.          *)
(*                                                                         *)
(* State machine of src/src/lib.rs: the record store of a Server, the      *)
(* registration calls add_records / add_response, start, and the request   *)
(* handler handle_request, which looks the queried name up, builds the     *)
(* response and awaits send_response.                                      *)
(*                                                                         *)
(* Textual names are sequences of one-character strings, so that parsing,  *)
(* lower-casing and the trailing dot are computed and not assumed.         *)
(***************************************************************************)
EXTENDS Integers, Sequences, FiniteSets, TLC

VARIABLES
    store,      \* Server.store: the entries of the HashMap<LowerName, Response>
    phase,      \* "setup" | "serving" | "stopped" | "aborted"
    call,       \* the owner's most recent API call and what it returned
    pending,    \* exchanges whose response is built and whose send is awaited
    panicked    \* TRUE once a handler task has panicked

vars == <<store, phase, call, pending, panicked>>

-----------------------------------------------------------------------------
(* Bounds and input domains *)

\* how many handler tasks may be awaiting send_response at once
MaxInFlight == 2

\* fixed TTL of every answer record
TTL == 60

\* textual names handed to add_records / add_response
InputNames ==
    { <<>>,                                 \* ""
      <<"a">>,                              \* "a"
      <<"A", ".">>,                         \* "A."
      <<"b", ".", "a">>,                    \* "b.a"
      <<"a", " ">>,                         \* "a " : whitespace
      <<"a", ".", ".">> }                   \* "a..": empty label

\* names as they arrive in a query: labels in the wire's case, always absolute
WireNames ==
    { [labels |-> <<>>, fqdn |-> TRUE],
      [labels |-> << <<"a">> >>, fqdn |-> TRUE],
      [labels |-> << <<"A">> >>, fqdn |-> TRUE],
      [labels |-> << <<"b">>, <<"a">> >>, fqdn |-> TRUE] }

V4a == [v |-> 4, ip |-> "1.2.3.4"]
V6a == [v |-> 6, ip |-> "2001:db8::1"]

\* address lists handed to add_records
AddrLists == { <<>>, <<V4a>>, <<V6a, V4a>> }

\* response codes handed to add_response
Codes == { "NXDomain", "Refused" }

\* requesters' source addresses and query types
Sources == { "1.2.3.4", "127.0.0.1" }
QueryTypes == { "A", "AAAA" }

-----------------------------------------------------------------------------
(* enum Response *)

Ok(addrs) == [tag |-> "Ok", addrs |-> addrs, code |-> "NoError"]
Code(c) == [tag |-> "Code", addrs |-> <<>>, code |-> c]

Responses == { Ok(l) : l \in AddrLists } \cup { Code(c) : c \in Codes }

-----------------------------------------------------------------------------
(* LowerName::from_str: Name::from_str, then LowerName::from *)

LowerChar(c) ==
    CASE c = "A" -> "a"
      [] c = "B" -> "b"
      [] OTHER -> c

LowerLabel(l) == [i \in 1..Len(l) |-> LowerChar(l[i])]

LowerLabels(ls) == [i \in 1..Len(ls) |-> LowerLabel(ls[i])]

IsSpace(c) == c = " "

IsSafeAscii(c) == c \in {"a", "b", "A", "B"}

\* Label::from_ascii: 1..63 safe characters
LabelOk(l) == /\ Len(l) >= 1
              /\ Len(l) <= 63
              /\ \A i \in 1..Len(l) : IsSafeAscii(l[i])

\* the character loop of the name parser from position i on, with the labels
\* appended so far and the label being read
RECURSIVE ParseFrom(_, _, _, _)
ParseFrom(text, i, labels, label) ==
    IF i > Len(text)
    THEN IF label = <<>>
         THEN [ok |-> TRUE, labels |-> labels]
         ELSE IF LabelOk(label)
              THEN [ok |-> TRUE, labels |-> Append(labels, label)]
              ELSE [ok |-> FALSE, labels |-> <<>>]
    ELSE IF text[i] = "."
         THEN IF LabelOk(label)
              THEN ParseFrom(text, i + 1, Append(labels, label), <<>>)
              ELSE [ok |-> FALSE, labels |-> <<>>]
         ELSE IF IsSpace(text[i])
              THEN [ok |-> FALSE, labels |-> <<>>]
              ELSE ParseFrom(text, i + 1, labels, Append(label, text[i]))

EndsWithDot(text) == Len(text) >= 1 /\ text[Len(text)] = "."

\* Name::from_str: "." is the root; a trailing dot makes the name absolute
NameFromStr(text) ==
    IF text = <<".">>
    THEN [ok |-> TRUE, name |-> [labels |-> <<>>, fqdn |-> TRUE]]
    ELSE LET p == ParseFrom(text, 1, <<>>, <<>>)
         IN  [ok |-> p.ok,
              name |-> [labels |-> p.labels, fqdn |-> p.ok /\ EndsWithDot(text)]]

\* LowerName::from(Name): every label lower-cased
ToLowerName(n) == [labels |-> LowerLabels(n.labels), fqdn |-> n.fqdn]

LowerNameFromStr(text) ==
    LET r == NameFromStr(text)
    IN  [ok |-> r.ok, name |-> ToLowerName(r.name)]

-----------------------------------------------------------------------------
(* HashMap<LowerName, Response> *)

\* what a fully-qualified-sensitive comparison would do
LowerNameEqFqdn(a, b) == a.labels = b.labels /\ a.fqdn = b.fqdn

\* Eq and Hash of LowerName: the labels, compared label by label
LowerNameEq(a, b) == a.labels = b.labels

NoResponse == [tag |-> "None", addrs |-> <<>>, code |-> "NoError"]

\* a lookup that also accepts an entry of an enclosing domain
GetSuffix(st, name) ==
    LET hits == { e \in st :
                    /\ Len(e.key.labels) >= 1
                    /\ Len(e.key.labels) <= Len(name.labels)
                    /\ SubSeq(name.labels,
                              Len(name.labels) - Len(e.key.labels) + 1,
                              Len(name.labels)) = e.key.labels }
    IN  IF hits = {} THEN NoResponse ELSE (CHOOSE e \in hits : TRUE).value

\* HashMap::get: Some(value) of the entry with an equal key, else None
Get(st, name) ==
    LET hits == { e \in st : LowerNameEq(e.key, name) }
    IN  IF hits = {} THEN NoResponse ELSE (CHOOSE e \in hits : TRUE).value

\* an insert that keeps the value already present
InsertKeepFirst(st, name, response) ==
    IF \E e \in st : LowerNameEq(e.key, name)
    THEN st
    ELSE st \cup { [key |-> name, value |-> response] }

\* HashMap::insert: the value of an equal key is replaced, else an entry added
Insert(st, name, response) ==
    IF \E e \in st : LowerNameEq(e.key, name)
    THEN { IF LowerNameEq(e.key, name)
           THEN [key |-> e.key, value |-> response]
           ELSE e : e \in st }
    ELSE st \cup { [key |-> name, value |-> response] }

-----------------------------------------------------------------------------
(* Server::add_response *)

\* a registration that swallows the parse error
AddResponseRetSwallow(text) == "Ok"

AddResponseRet(text) == IF LowerNameFromStr(text).ok THEN "Ok" ELSE "Err"

AddResponseStore(st, text, response) ==
    LET r == LowerNameFromStr(text)
    IN  IF r.ok THEN Insert(st, r.name, response) ELSE st

\* a responder that could still be registered to while it serves
RegistrableAlways == phase \in {"setup", "serving"}

\* add_response takes &mut self and start takes self by value
Registrable == phase = "setup"

-----------------------------------------------------------------------------
(* Server::handle_request *)

RData(addr) ==
    IF addr.v = 4
    THEN [rtype |-> "A", ip |-> addr.ip]
    ELSE [rtype |-> "AAAA", ip |-> addr.ip]

FromRData(owner, ttl, rdata) ==
    [owner |-> owner, ttl |-> ttl, rtype |-> rdata.rtype, ip |-> rdata.ip]

\* every address rendered as an A record
RecordsAllA(name, entries) ==
    [i \in 1..Len(entries) |->
        FromRData(name, TTL, [rtype |-> "A", ip |-> entries[i].ip])]

Records(name, entries) ==
    [i \in 1..Len(entries) |-> FromRData(name, TTL, RData(entries[i]))]

Message(rcode, answers) == [aa |-> TRUE, rcode |-> rcode, answers |-> answers]

\* unknown names answered with the requester's own address
BuildResponseEcho(st, q) ==
    LET name == ToLowerName(q.name)
        found == Get(st, name)
    IN  CASE found.tag = "Ok" -> Message("NoError", Records(name, found.addrs))
          [] found.tag = "Code" -> Message(found.code, <<>>)
          [] OTHER -> Message("NoError",
                        << FromRData(name, TTL, [rtype |-> "A", ip |-> q.src]) >>)

\* an empty address list treated as "not found"
BuildResponseEmptyIsMissing(st, q) ==
    LET name == ToLowerName(q.name)
        found == Get(st, name)
    IN  CASE found.tag = "Ok" /\ found.addrs # <<>> ->
                Message("NoError", Records(name, found.addrs))
          [] found.tag = "Code" -> Message(found.code, <<>>)
          [] OTHER -> Message("ServFail", <<>>)

\* the configured code dropped in favour of the default failure
BuildResponseCodeIgnored(st, q) ==
    LET name == ToLowerName(q.name)
        found == Get(st, name)
    IN  CASE found.tag = "Ok" -> Message("NoError", Records(name, found.addrs))
          [] OTHER -> Message("ServFail", <<>>)

\* the message handed to send_response for query q
BuildResponse(st, q) ==
    LET name == ToLowerName(q.name)
        found == Get(st, name)
    IN  CASE found.tag = "Ok" -> Message("NoError", Records(name, found.addrs))
          [] found.tag = "Code" -> Message(found.code, <<>>)
          [] OTHER -> Message("ServFail", <<>>)

Queries == [name : WireNames, src : Sources, qtype : QueryTypes]

Exchange(q, m) == [query |-> q, response |-> m]

-----------------------------------------------------------------------------
(* Actions *)

NoCall == [op |-> "none", name |-> <<>>, response |-> NoResponse, ret |-> "None"]

\* the shape of the state
TypeOK ==
    /\ \A e \in store : e.key.fqdn \in BOOLEAN /\ e.value \in Responses
    /\ phase \in {"setup", "serving", "stopped", "aborted"}
    /\ call.ret \in {"None", "Ok", "Err", "Pending"}
    /\ pending \subseteq { Exchange(q, BuildResponse(store, q)) : q \in Queries }
    /\ Cardinality(pending) <= MaxInFlight
    /\ panicked \in BOOLEAN

Init ==
    /\ store = {}
    /\ phase = "setup"
    /\ call = NoCall
    /\ pending = {}
    /\ panicked = FALSE

AddRecords(text, records) ==
    /\ Registrable
    /\ store' = AddResponseStore(store, text, Ok(records))
    /\ call' = [op |-> "add_records", name |-> text,
                response |-> Ok(records), ret |-> AddResponseRet(text)]
    /\ UNCHANGED <<phase, pending, panicked>>

AddResponse(text, response) ==
    /\ Registrable
    /\ store' = AddResponseStore(store, text, response)
    /\ call' = [op |-> "add_response", name |-> text,
                response |-> response, ret |-> AddResponseRet(text)]
    /\ UNCHANGED <<phase, pending, panicked>>

Start ==
    /\ phase = "setup"
    /\ phase' = "serving"
    /\ call' = [op |-> "start", name |-> <<>>, response |-> NoResponse,
                ret |-> "Pending"]
    /\ UNCHANGED <<store, pending, panicked>>

HandleRequest(q) ==
    /\ phase = "serving"
    /\ Cardinality(pending) < MaxInFlight
    /\ pending' = pending \cup { Exchange(q, BuildResponse(store, q)) }
    /\ UNCHANGED <<store, phase, call, panicked>>

SendResponseOk(e) ==
    /\ phase = "serving"
    /\ e \in pending
    /\ pending' = pending \ {e}
    /\ UNCHANGED <<store, phase, call, panicked>>

\* send_response returned Err and unwrap() panics: the task is gone, and the
\* process with it when panics abort
SendResponseErr(e) ==
    /\ phase = "serving"
    /\ e \in pending
    /\ panicked' = TRUE
    /\ \/ phase' = "serving" /\ pending' = pending \ {e}
       \/ phase' = "aborted" /\ pending' = {}
    /\ UNCHANGED <<store, call>>

\* block_until_done returned an error: start returns it
BlockUntilDoneErr ==
    /\ phase = "serving"
    /\ phase' = "stopped"
    /\ pending' = {}
    /\ call' = [call EXCEPT !.ret = "Err"]
    /\ UNCHANGED <<store, panicked>>

Next ==
    \/ \E text \in InputNames, records \in AddrLists : AddRecords(text, records)
    \/ \E text \in InputNames, response \in Responses : AddResponse(text, response)
    \/ Start
    \/ \E q \in Queries : HandleRequest(q)
    \/ \E e \in pending : SendResponseOk(e)
    \/ \E e \in pending : SendResponseErr(e)
    \/ BlockUntilDoneErr

Spec == Init /\ [][Next]_vars

-----------------------------------------------------------------------------
(* Vocabulary of the properties *)

\* the normalized form of a queried name: its labels, lower-cased
Normalized(n) == LowerLabels(n.labels)

\* the store entries registered under the normalized form of queried name n
EntriesFor(n) == { e \in store : e.key.labels = Normalized(n) }

IsRegistration(c) == c.op \in {"add_records", "add_response"}

\* exchange x carries the outcome v: its code, and its addresses in order
Carries(x, v) ==
    /\ x.response.aa
    /\ x.response.rcode = (IF v.tag = "Ok" THEN "NoError" ELSE v.code)
    /\ Len(x.response.answers) = Len(v.addrs)
    /\ \A i \in 1..Len(v.addrs) :
          /\ x.response.answers[i].ip = v.addrs[i].ip
          /\ x.response.answers[i].rtype = (IF v.addrs[i].v = 4 THEN "A" ELSE "AAAA")

StripDot(t) == IF EndsWithDot(t) THEN SubSeq(t, 1, Len(t) - 1) ELSE t

LowerText(t) == [i \in 1..Len(t) |-> LowerChar(t[i])]

\* two spellings that differ only in letter case and in the trailing dot
SameSpelling(t1, t2) == LowerText(StripDot(t1)) = LowerText(StripDot(t2))

\* the lower-cased absolute names a query can carry
QueryNames == { ToLowerName(w) : w \in WireNames }

-----------------------------------------------------------------------------
(* Properties *)

\* C1: a query for a name registered with a non-empty address list is answered
\* NoError and authoritative, with one answer per registered address, in the
\* registered order, an A record per IPv4 and an AAAA record per IPv6 address.
C1_AddressAnswers ==
    \A x \in pending : \A e \in EntriesFor(x.query.name) :
        (e.value.tag = "Ok" /\ e.value.addrs # <<>>) =>
            /\ x.response.aa
            /\ x.response.rcode = "NoError"
            /\ Len(x.response.answers) = Len(e.value.addrs)
            /\ \A i \in 1..Len(e.value.addrs) :
                  /\ x.response.answers[i].ip = e.value.addrs[i].ip
                  /\ x.response.answers[i].rtype =
                        (IF e.value.addrs[i].v = 4 THEN "A" ELSE "AAAA")

C1_Witness ==
    \E x \in pending : \E e \in EntriesFor(x.query.name) :
        /\ e.value = Ok(<<V6a, V4a>>)
        /\ Len(x.response.answers) = 2
        /\ x.response.answers[1].rtype = "AAAA"
        /\ x.response.answers[2].rtype = "A"

\* C2: a query for a name whose normalized form is not in the store, a
\* subdomain or parent of a registered name included, is answered ServFail,
\* authoritative, with no answer records.
C2_UnregisteredServFail ==
    \A x \in pending :
        EntriesFor(x.query.name) = {} =>
            /\ x.response.aa
            /\ x.response.rcode = "ServFail"
            /\ x.response.answers = <<>>

C2_Witness ==
    /\ \E e \in store : e.key.labels = << <<"a">> >> /\ e.value.tag = "Ok"
    /\ \E x \in pending :
          /\ Normalized(x.query.name) = << <<"b">>, <<"a">> >>
          /\ EntriesFor(x.query.name) = {}
          /\ x.response.rcode = "ServFail"

\* C3: a query for a name registered with Response::Code(c) is answered with
\* exactly c, authoritative, with no answer records.
C3_StatusOnly ==
    \A x \in pending : \A e \in EntriesFor(x.query.name) :
        e.value.tag = "Code" =>
            /\ x.response.aa
            /\ x.response.rcode = e.value.code
            /\ x.response.answers = <<>>

C3_Witness ==
    \E x \in pending : \E e \in EntriesFor(x.query.name) :
        /\ e.value = Code("NXDomain")
        /\ x.response.rcode = "NXDomain"
        /\ x.response.rcode # "ServFail"

\* C4: spellings that differ only in letter case and the trailing dot name the
\* same entry: after a registration the other spelling finds the registered
\* outcome, the store holds one entry per such name, and a query in any case
\* is answered with the outcome of the entry.
C4_SpellingInsensitive ==
    /\ (IsRegistration(call) /\ call.ret = "Ok") =>
          \A t \in InputNames :
              SameSpelling(call.name, t) =>
                  /\ LowerNameFromStr(t).ok
                  /\ Get(store, LowerNameFromStr(t).name) = call.response
    /\ \A e1, e2 \in store : e1.key.labels = e2.key.labels => e1 = e2
    /\ \A x \in pending : \A e \in EntriesFor(x.query.name) : Carries(x, e.value)

C4_Witness ==
    /\ \E e \in store :
          /\ e.key = [labels |-> << <<"a">> >>, fqdn |-> FALSE]
          /\ e.value = Code("NXDomain")
    /\ \E x \in pending :
          /\ x.query.name = [labels |-> << <<"A">> >>, fqdn |-> TRUE]
          /\ x.response.rcode = "NXDomain"

\* C5: the store holds at most one outcome per normalized name; a successful
\* registration makes its outcome the one found for its name and leaves the
\* outcome of every other name as it was.
C5_LastRegistrationWins ==
    [][ /\ \A e1, e2 \in store' : e1.key.labels = e2.key.labels => e1 = e2
        /\ (phase = "setup" /\ IsRegistration(call') /\ call'.ret = "Ok") =>
              LET n == LowerNameFromStr(call'.name).name
              IN  /\ Get(store', n) = call'.response
                  /\ \A m \in QueryNames :
                        m.labels # n.labels => Get(store', m) = Get(store, m)
      ]_vars

\* "a" was registered first, "A." is the latest registration, and two names
\* are held
C5_Witness ==
    /\ Cardinality(store) = 2
    /\ call.op = "add_response" /\ call.name = <<"A", ".">> /\ call.ret = "Ok"
    /\ \E e \in store :
          /\ e.key = [labels |-> << <<"a">> >>, fqdn |-> FALSE]
          /\ e.value = call.response

\* C6 as stated: a registration whose name is unparsable, the empty string
\* counted among the unparsable names, returns Err and leaves the store as it
\* was; any other registration returns Ok and inserts the mapping.
C6_EmptyNameRejected ==
    [][ (phase = "setup" /\ IsRegistration(call')) =>
            IF LowerNameFromStr(call'.name).ok /\ call'.name # <<>>
            THEN /\ call'.ret = "Ok"
                 /\ \E e \in store' :
                       /\ e.key.labels = LowerNameFromStr(call'.name).name.labels
                       /\ e.value = call'.response
            ELSE /\ call'.ret = "Err"
                 /\ store' = store
      ]_vars

\* C6 amended: a registration whose name does not parse (whitespace, an empty
\* label) returns Err and leaves the store as it was; a registration whose
\* name parses, the empty string included, returns Ok and inserts the mapping.
C6_RegistrationErrors ==
    [][ (phase = "setup" /\ IsRegistration(call')) =>
            IF LowerNameFromStr(call'.name).ok
            THEN /\ call'.ret = "Ok"
                 /\ \E e \in store' :
                       /\ e.key.labels = LowerNameFromStr(call'.name).name.labels
                       /\ e.value = call'.response
            ELSE /\ call'.ret = "Err"
                 /\ store' = store
      ]_vars

\* the empty string was registered, and a later call with "a " was refused
C6_Witness ==
    /\ call.op = "add_response"
    /\ call.name = <<"a", " ">>
    /\ call.ret = "Err"
    /\ \E e \in store : e.key = [labels |-> <<>>, fqdn |-> FALSE]
    /\ \A e \in store : e.value # call.response

\* C7: once start has taken the responder no step changes the store:
\* no registration applies to it and handling queries leaves it as it is.
C7_StoreReadOnlyAfterStart ==
    [][ phase # "setup" => store' = store ]_vars

C7_Witness ==
    /\ phase = "serving"
    /\ store # {}
    /\ Cardinality(pending) = 2

\* C8: a failed send is logged and dropped: no handler panics on it and the
\* responder is not ended by it.
C8_SendFailureIsolated ==
    /\ panicked = FALSE
    /\ phase # "aborted"

\* C9: a name registered with an empty address list is answered NoError,
\* authoritative, with no answer records; a name not registered is answered
\* ServFail.
C9_EmptyIsNotMissing ==
    \A x \in pending :
        /\ \A e \in EntriesFor(x.query.name) :
              e.value = Ok(<<>>) =>
                  /\ x.response.aa
                  /\ x.response.rcode = "NoError"
                  /\ x.response.answers = <<>>
        /\ EntriesFor(x.query.name) = {} => x.response.rcode = "ServFail"

C9_Witness ==
    \E x, y \in pending :
        /\ \E e \in EntriesFor(x.query.name) : e.value = Ok(<<>>)
        /\ x.response.rcode = "NoError"
        /\ x.response.answers = <<>>
        /\ EntriesFor(y.query.name) = {}
        /\ y.response.rcode = "ServFail"

\* C10: two exchanges for the same normalized name carry the same code and
\* the same ordered answers, whatever their source address and query type, and
\* an unregistered name is never answered with the requester's address.
C10_Deterministic ==
    /\ \A x, y \in pending :
          Normalized(x.query.name) = Normalized(y.query.name) =>
              /\ x.response.rcode = y.response.rcode
              /\ x.response.answers = y.response.answers
    /\ \A x \in pending :
          EntriesFor(x.query.name) = {} =>
              \A i \in 1..Len(x.response.answers) :
                  x.response.answers[i].ip # x.query.src

C10_Witness ==
    \E x, y \in pending :
        /\ Normalized(x.query.name) = Normalized(y.query.name)
        /\ x.query.name # y.query.name
        /\ x.query.src # y.query.src
        /\ x.query.qtype # y.query.qtype
        /\ EntriesFor(x.query.name) = {}
        /\ x.response.rcode = "ServFail"

====
